---- MODULE Spec2Model ----
(***************************************************************************)
(* A model of GoogleCloudBaseHook (airflow/contrib/hooks/gcp_api_base_hook) *)
(* : credential resolution, the user-agent decoration of the HTTP client,  *)
(* the project-id fallback decorator and the credential-file decorator.    *)
(*                                                                         *)
(* Python strings are sequences of one-character strings, so that          *)
(* endswith, split, strip, replace, lower-casing and JSON parsing are      *)
(* computed rather than assumed.  Python values are records [t, v]: t is   *)
(* the Python type, v the payload.                                         *)
(***************************************************************************)
EXTENDS Integers, Sequences, FiniteSets, TLC

VARIABLES
    extras,      \* hook -> the extras mapping (self.extras)
    loaded,      \* hook -> the mapping the connection gave at construction
    delegate_to, \* hook -> self.delegate_to
    environ,     \* os.environ.get(GOOGLE_APPLICATION_CREDENTIALS): <<>> or <<v>>
    files,       \* the temporary files that exist: name -> contents
    pc,          \* hook -> position inside provide_gcp_credential_file's wrapper
    conf_file,   \* hook -> the wrapper's open NamedTemporaryFile: <<>> or <<name>>
    env_entry,   \* hook -> inside the wrapper, environ as it was on entry
    env_set,     \* hook -> what the wrapper assigned to environ: <<>> or <<v>>
    client,      \* hook -> the object _authorize returned: <<>> or <<c>>
    last,        \* hook -> the outcome of the hook's last completed operation
    writer       \* the hook that last assigned environ: <<>> or <<h>>

vars == <<extras, loaded, delegate_to, environ, files, pc, conf_file,
          env_entry, env_set, client, last, writer>>

----------------------------------------------------------------------------
(* Bounds of the model *)

\* how many distinct temporary file names tempfile can hand out
NTmp == 2

----------------------------------------------------------------------------
(* Python values *)

PyNone == [t |-> "None", v |-> <<>>]
PyFalse == [t |-> "False", v |-> <<>>]
Str(s) == [t |-> "str", v |-> s]

\* Python truthiness of None, False and str
Truthy(x) == x.t = "str" /\ x.v # <<>>

\* str.endswith
EndsWith(s, suf) ==
    /\ Len(s) >= Len(suf)
    /\ SubSeq(s, Len(s) - Len(suf) + 1, Len(s)) = suf

StartsWithAt(s, i, pre) ==
    /\ i + Len(pre) - 1 <= Len(s)
    /\ SubSeq(s, i, i + Len(pre) - 1) = pre

\* str.replace(old, new), leftmost non-overlapping occurrences
RECURSIVE ReplaceFrom(_, _, _, _)
ReplaceFrom(s, i, old, new) ==
    IF i > Len(s) THEN <<>>
    ELSE IF StartsWithAt(s, i, old)
         THEN new \o ReplaceFrom(s, i + Len(old), old, new)
         ELSE <<s[i]>> \o ReplaceFrom(s, i + 1, old, new)

Replace(s, old, new) == ReplaceFrom(s, 1, old, new)

\* str.split(','): the pieces between the commas, empty pieces kept
RECURSIVE SplitFrom(_, _, _)
SplitFrom(s, i, cur) ==
    IF i > Len(s) THEN <<cur>>
    ELSE IF s[i] = "," THEN <<cur>> \o SplitFrom(s, i + 1, <<>>)
         ELSE SplitFrom(s, i + 1, Append(cur, s[i]))

Split(s) == SplitFrom(s, 1, <<>>)

IsSpace(c) == c \in {" ", "\t", "\n"}

RECURSIVE LStrip(_)
LStrip(s) == IF s # <<>> /\ IsSpace(Head(s)) THEN LStrip(Tail(s)) ELSE s

RECURSIVE RStrip(_)
RStrip(s) ==
    IF s # <<>> /\ IsSpace(s[Len(s)]) THEN RStrip(SubSeq(s, 1, Len(s) - 1)) ELSE s

\* str.strip()
Strip(s) == RStrip(LStrip(s))

\* str.lower() on the letters header names are written with
LowerChar(c) ==
    CASE c = "U" -> "u" [] c = "S" -> "s" [] c = "E" -> "e" [] c = "R" -> "r"
      [] c = "A" -> "a" [] c = "G" -> "g" [] c = "N" -> "n" [] c = "T" -> "t"
      [] c = "X" -> "x" [] OTHER -> c

RECURSIVE Lower(_)
Lower(s) == IF s = <<>> THEN <<>> ELSE <<LowerChar(Head(s))>> \o Lower(Tail(s))

----------------------------------------------------------------------------
(* json.loads, for the JSON texts a key can be pasted as: a string, or an  *)
(* object whose members are strings; whitespace between tokens is skipped. *)
(* Any other text is a JSONDecodeError.                                    *)

QT == "\""
BS == "\\"
NL == "\n"

JsonFail == [ok |-> FALSE, val |-> PyNone, pos |-> 0]

RECURSIVE JsonSkip(_, _)
JsonSkip(s, i) == IF i <= Len(s) /\ IsSpace(s[i]) THEN JsonSkip(s, i + 1) ELSE i

\* the characters of a JSON string after its opening quote
RECURSIVE JsonStrBody(_, _, _)
JsonStrBody(s, i, acc) ==
    IF i > Len(s) THEN JsonFail
    ELSE IF s[i] = QT THEN [ok |-> TRUE, val |-> Str(acc), pos |-> i + 1]
    ELSE IF s[i] = NL THEN JsonFail
    ELSE IF s[i] = BS
         THEN IF i + 1 > Len(s) THEN JsonFail
              ELSE IF s[i + 1] = "n" THEN JsonStrBody(s, i + 2, Append(acc, NL))
              ELSE IF s[i + 1] \in {BS, QT}
                   THEN JsonStrBody(s, i + 2, Append(acc, s[i + 1]))
                   ELSE JsonFail
         ELSE JsonStrBody(s, i + 1, Append(acc, s[i]))

JsonString(s, i) ==
    IF i <= Len(s) /\ s[i] = QT THEN JsonStrBody(s, i + 1, <<>>) ELSE JsonFail

\* the members of an object from position i on, up to the closing brace
RECURSIVE JsonMembers(_, _, _)
JsonMembers(s, i, acc) ==
    LET k == JsonString(s, JsonSkip(s, i)) IN
    IF ~k.ok THEN JsonFail ELSE
    LET c == JsonSkip(s, k.pos) IN
    IF ~(c <= Len(s) /\ s[c] = ":") THEN JsonFail ELSE
    LET v == JsonString(s, JsonSkip(s, c + 1)) IN
    IF ~v.ok THEN JsonFail ELSE
    LET e == JsonSkip(s, v.pos)
        obj == (k.val.v :> v.val.v) @@ acc
    IN  IF e > Len(s) THEN JsonFail
        ELSE IF s[e] = "}" THEN [ok |-> TRUE, val |-> [t |-> "dict", v |-> obj],
                                 pos |-> e + 1]
        ELSE IF s[e] = "," THEN JsonMembers(s, e + 1, obj)
        ELSE JsonFail

JsonValue(s, i) ==
    IF i > Len(s) THEN JsonFail
    ELSE IF s[i] = QT THEN JsonString(s, i)
    ELSE IF s[i] = "{"
         THEN LET j == JsonSkip(s, i + 1) IN
              IF j <= Len(s) /\ s[j] = "}"
              THEN [ok |-> TRUE, val |-> [t |-> "dict", v |-> <<>>], pos |-> j + 1]
              ELSE JsonMembers(s, i + 1, <<>>)
    ELSE JsonFail

JsonLoads(s) ==
    LET r == JsonValue(s, JsonSkip(s, 1)) IN
    IF r.ok /\ JsonSkip(s, r.pos) = Len(s) + 1 THEN r ELSE JsonFail

----------------------------------------------------------------------------
(* GoogleCloudBaseHook: fields and credentials *)

_DEFAULT_SCOPES == << <<"https://www.googleapis.com/auth/cloud-platform">> >>

\* 'extra__google_cloud_platform__{}'.format(f)
LongF(f) == <<"extra__google_cloud_platform__", f>>

\* _get_field(f, default) on the extras mapping ex
GetField(ex, f, default) ==
    IF LongF(f) \in DOMAIN ex THEN Str(ex[LongF(f)]) ELSE default

\* the scopes _get_credentials asks for
Scopes(ex) ==
    LET scope == GetField(ex, "scope", PyNone) IN
    IF Truthy(scope)
    THEN LET parts == Split(scope.v) IN [i \in 1..Len(parts) |-> Strip(parts[i])]
    ELSE _DEFAULT_SCOPES

NoCred == [kind |-> "none", scopes |-> <<>>, key |-> <<>>, subject |-> PyNone]

\* what google.auth / google.oauth2.service_account hand back
MkCred(kind, scopes, key) ==
    [kind |-> kind, scopes |-> scopes, key |-> key, subject |-> PyNone]

MsgP12 == "Legacy P12 key file are not supported, use a JSON key file."
MsgExt == "Unrecognised extension for key file."
MsgJson == "Invalid key JSON."

Raise(exc, msg, branch, parsed) ==
    [status |-> exc, msg |-> msg, cred |-> NoCred, branch |-> branch,
     parsed |-> parsed]

Return(cred, branch, parsed) ==
    [status |-> "ok", msg |-> "", cred |-> cred, branch |-> branch,
     parsed |-> parsed]

\* Branch with keyfile_dict looked at before key_path
BranchKeyfileFirst(ex) ==
    LET key_path == GetField(ex, "key_path", PyFalse)
        keyfile_dict == GetField(ex, "keyfile_dict", PyFalse)
    IN  IF ~Truthy(key_path) /\ ~Truthy(keyfile_dict) THEN "default"
        ELSE IF Truthy(keyfile_dict) THEN "keyfile_dict"
        ELSE "key_path"

\* the branch of _get_credentials the extras select
Branch(ex) ==
    LET key_path == GetField(ex, "key_path", PyFalse)
        keyfile_dict == GetField(ex, "keyfile_dict", PyFalse)
    IN  IF ~Truthy(key_path) /\ ~Truthy(keyfile_dict) THEN "default"
        ELSE IF Truthy(key_path) THEN "key_path"
        ELSE "keyfile_dict"

\* FromKeyPath without the .p12 arm
FromKeyPathNoP12(key_path, scopes) ==
    IF EndsWith(key_path, <<".", "j", "s", "o", "n">>)
    THEN Return(MkCred("file", scopes, key_path), "key_path", FALSE)
    ELSE Raise("AirflowException", MsgExt, "key_path", FALSE)

\* the elif key_path: branch
FromKeyPath(key_path, scopes) ==
    IF EndsWith(key_path, <<".", "j", "s", "o", "n">>)
    THEN Return(MkCred("file", scopes, key_path), "key_path", FALSE)
    ELSE IF EndsWith(key_path, <<".", "p", "1", "2">>)
         THEN Raise("AirflowException", MsgP12, "key_path", FALSE)
         ELSE Raise("AirflowException", MsgExt, "key_path", FALSE)

PrivateKey == <<"p", "k">>

\* FromKeyfileDict with the except clause missing
FromKeyfileDictUncaught(keyfile_dict, scopes) ==
    LET r == JsonLoads(keyfile_dict) IN
    IF ~r.ok THEN Raise("JSONDecodeError", "", "keyfile_dict", TRUE)
    ELSE IF r.val.t # "dict" THEN Raise("TypeError", "", "keyfile_dict", TRUE)
    ELSE IF PrivateKey \notin DOMAIN r.val.v
         THEN Raise("KeyError", "", "keyfile_dict", TRUE)
         ELSE Return(MkCred("info", scopes,
                            Replace(r.val.v[PrivateKey], <<BS, "n">>, <<NL>>)),
                     "keyfile_dict", TRUE)

\* the else: branch, JSON data provided in the UI
FromKeyfileDict(keyfile_dict, scopes) ==
    LET r == JsonLoads(keyfile_dict) IN
    IF ~r.ok THEN Raise("AirflowException", MsgJson, "keyfile_dict", TRUE)
    ELSE IF r.val.t # "dict" THEN Raise("TypeError", "", "keyfile_dict", TRUE)
    ELSE IF PrivateKey \notin DOMAIN r.val.v
         THEN Raise("KeyError", "", "keyfile_dict", TRUE)
         ELSE Return(MkCred("info", scopes,
                            Replace(r.val.v[PrivateKey], <<BS, "n">>, <<NL>>)),
                     "keyfile_dict", TRUE)

\* credentials.with_subject(self.delegate_to) if self.delegate_to else credentials
WithSubject(r, delegate) ==
    IF r.status = "ok" /\ Truthy(delegate)
    THEN [r EXCEPT !.cred.subject = delegate]
    ELSE r

\* _get_credentials
GetCredentials(ex, delegate) ==
    LET key_path == GetField(ex, "key_path", PyFalse)
        keyfile_dict == GetField(ex, "keyfile_dict", PyFalse)
        scopes == Scopes(ex)
        b == Branch(ex)
    IN  WithSubject(
          IF b = "default" THEN Return(MkCred("default", scopes, <<>>), b, FALSE)
          ELSE IF b = "key_path" THEN FromKeyPath(key_path.v, scopes)
          ELSE FromKeyfileDict(keyfile_dict.v, scopes),
          delegate)

\* the normalised key text stored back under keyfile_dict
ExtrasWrittenBack(ex) ==
    IF LongF("keyfile_dict") \in DOMAIN ex
    THEN [ex EXCEPT ![LongF("keyfile_dict")] = Replace(@, <<BS, "n">>, <<NL>>)]
    ELSE ex

\* self.extras once _get_credentials has run: json.loads builds a new object
\* and the private_key assignment writes that object, never the mapping
ExtrasAfterGetCredentials(ex) == ex

----------------------------------------------------------------------------
(* _set_user_agent and _authorize.  A header map is a function from header *)
(* names to values; <<>> is the empty dict.  An optional argument is <<>>  *)
(* (None) or <<value>>.                                                    *)

UserAgentKey == <<"u", "s", "e", "r", "-", "a", "g", "e", "n", "t">>

\* 'airflow-{}'.format(version)
AirflowUserAgent == <<"airflow-", "version">>

\* new_headers = headers, without the copy
HeadersAlias(m) == [alias |-> TRUE, map |-> m]

\* headers.copy(): a new dict with the same items; alias says whether the
\* result is the caller's own dict object
HeadersCopy(m) == [alias |-> FALSE, map |-> m]

\* new_headers['user-agent'] = ..., both arms of the if
SetUserAgent(m, user_agent) ==
    IF UserAgentKey \in DOMAIN m
    THEN (UserAgentKey :> (user_agent \o <<" ">> \o m[UserAgentKey])) @@ m
    ELSE (UserAgentKey :> user_agent) @@ m

\* new_request(headers=h): caller is the caller's dict once the call is over,
\* transport the header map request_orig is called with
NewRequest(h, user_agent) ==
    LET new_headers == IF h # <<>> THEN HeadersCopy(h[1])
                       ELSE [alias |-> FALSE, map |-> <<>>]
        out == SetUserAgent(new_headers.map, user_agent)
    IN  [caller |-> IF new_headers.alias THEN <<out>> ELSE h,
         transport |-> out]

AuthorizationKey == <<"authorization">>

\* AuthorizedHttp(credentials, http=http).request(headers=h): the headers are
\* copied, the bearer token is applied and http.request is called
AuthorizedRequest(h, user_agent) ==
    LET request_headers ==
            (AuthorizationKey :> <<"Bearer">>) @@ (IF h # <<>> THEN h[1] ELSE <<>>)
        inner == NewRequest(<<request_headers>>, user_agent)
    IN  [caller |-> h, transport |-> inner.transport]

\* the User-Agent values a transport sends for a header map: header names
\* are case-insensitive on the wire
UserAgentValues(m) == {m[k] : k \in {n \in DOMAIN m : Lower(n) = UserAgentKey}}

----------------------------------------------------------------------------
(* fallback_to_default_project_id *)

\* project_id property
ProjectId(ex) == GetField(ex, "project", PyNone)

\* _get_project_id testing "is not None" instead of truthiness
GetProjectIdNoneOnly(ex, project_id) ==
    IF project_id # PyNone THEN project_id ELSE ProjectId(ex)

\* _get_project_id
GetProjectId(ex, project_id) ==
    IF Truthy(project_id) THEN project_id ELSE ProjectId(ex)

MsgPositional == "Use keyword arguments when initializing method with the 'fallback_to_default_project_id' decorator"
MsgProject == "The project id must be passed either as keyword project_id parameter or as project_id extra in GCP connection definition. Both are not set!"

\* inner_wrapper(self, *args, **kwargs): nargs is len(args), kw the project_id
\* keyword (<<>> when absent); invoked counts the calls of func
InnerWrapper(ex, nargs, kw) ==
    IF nargs > 0
    THEN [status |-> "AirflowException", msg |-> MsgPositional, invoked |-> 0,
          project_id |-> PyNone]
    ELSE LET pid == IF kw # <<>> THEN GetProjectId(ex, kw[1])
                    ELSE GetProjectId(ex, PyNone)
         IN  IF ~Truthy(pid)
             THEN [status |-> "AirflowException", msg |-> MsgProject,
                   invoked |-> 0, project_id |-> pid]
             ELSE [status |-> "ok", msg |-> "", invoked |-> 1, project_id |-> pid]

----------------------------------------------------------------------------
(* _Decorators.provide_gcp_credential_file *)

TmpNames == {<<"/tmp/", ToString(i)>> : i \in 1..NTmp}

\* tempfile.NamedTemporaryFile(mode='w+t'): a new empty file under a name
\* no existing file has
CreateTmp(fs, n) == [fs EXCEPT ![n] = << <<>> >>]

\* conf_file.write(data); conf_file.flush() on the file named n
WriteFlush(fs, n, data) == [fs EXCEPT ![n] = <<fs[n][1] \o data>>]

\* leaving the with block: the file is closed, and deleted on close
CloseTmp(fs, n) == [fs EXCEPT ![n] = <<>>]

\* os.environ.setdefault(_G_APP_CRED_ENV_VAR, v)
EnvSetDefault(env, v) == IF env = <<>> THEN <<v>> ELSE env

\* os.environ[_G_APP_CRED_ENV_VAR] = v
EnvAssign(env, v) == <<v>>

\* Provide with keyfile_dict looked at before key_path
ProvideKeyfileFirst(ex, name) ==
    LET key_path == GetField(ex, "key_path", PyFalse)
        keyfile_dict == GetField(ex, "keyfile_dict", PyFalse)
    IN  IF Truthy(keyfile_dict)
        THEN [status |-> "ok", msg |-> "", env |-> <<name>>,
              data |-> <<keyfile_dict.v>>]
        ELSE IF Truthy(key_path)
             THEN IF EndsWith(key_path.v, <<".", "p", "1", "2">>)
                  THEN [status |-> "AirflowException", msg |-> MsgP12, env |-> <<>>,
                        data |-> <<>>]
                  ELSE [status |-> "ok", msg |-> "", env |-> <<key_path.v>>,
                        data |-> <<>>]
             ELSE [status |-> "ok", msg |-> "", env |-> <<>>, data |-> <<>>]

\* the body of the with block up to the call of func: status is "ok" or the
\* exception raised, env the value assigned to the variable (<<>>: none),
\* data what is written to conf_file (<<>>: nothing)
Provide(ex, name) ==
    LET key_path == GetField(ex, "key_path", PyFalse)
        keyfile_dict == GetField(ex, "keyfile_dict", PyFalse)
    IN  IF Truthy(key_path)
        THEN IF EndsWith(key_path.v, <<".", "p", "1", "2">>)
             THEN [status |-> "AirflowException", msg |-> MsgP12, env |-> <<>>,
                   data |-> <<>>]
             ELSE [status |-> "ok", msg |-> "", env |-> <<key_path.v>>,
                   data |-> <<>>]
        ELSE IF Truthy(keyfile_dict)
             THEN [status |-> "ok", msg |-> "", env |-> <<name>>,
                   data |-> <<keyfile_dict.v>>]
             ELSE [status |-> "ok", msg |-> "", env |-> <<>>, data |-> <<>>]

----------------------------------------------------------------------------
(* The inputs the operations are tried on *)

Hooks == {"h1", "h2"}

KeyJson == <<"/", "a", ".", "j", "s", "o", "n">>
KeyJsonB == <<"/", "b", ".", "j", "s", "o", "n">>
KeyP12 == <<"/", "a", ".", "p", "1", "2">>
KeyTxt == <<"/", "a", ".", "t", "x", "t">>

\* {"pk":"a\\nb"} : the private key arrives with an escaped newline
DictGood == <<"{", QT, "p", "k", QT, ":", " ", QT, "a", BS, BS, "n", "b", QT, "}">>
\* {"pk":"c"}
DictGoodB == <<"{", QT, "p", "k", QT, ":", QT, "c", QT, "}">>
\* {"pk":"a   (cut short)
DictBad == <<"{", QT, "p", "k", QT, ":", QT, "a">>
\* {'pk':'a'}  (single quotes are not JSON)
DictSingle == <<"{", "'", "p", "k", "'", ":", "'", "a", "'", "}">>
\* {}
DictNoKey == <<"{", "}">>
\* "x"
DictString == <<QT, "x", QT>>

KeyPaths == {<<>>, KeyJson, KeyP12, KeyTxt}
KeyfileDicts == {<<>>, DictGood, DictBad, DictSingle, DictNoKey, DictString}
ScopeTexts == {<<"a", ",", " ", "b">>}
Projects == {<<>>, <<"p">>}
Delegates == {PyNone, Str(<<"d">>)}
PriorEnv == <<"/", "p", "r", "i", "o", "r">>

\* the mappings a connection can hold: each field absent, or one of its values
RECURSIVE ExtrasOver(_)
ExtrasOver(fields) ==
    IF fields = <<>> THEN {<<>>}
    ELSE LET f == Head(fields)
             rest == ExtrasOver(Tail(fields))
         IN  rest \cup {(LongF(f[1]) :> v) @@ r : v \in f[2], r \in rest}

AllExtras ==
    ExtrasOver(<< <<"key_path", KeyPaths>>, <<"keyfile_dict", KeyfileDicts>>,
                  <<"scope", ScopeTexts>>, <<"project", Projects>> >>)

\* key material only, for two hooks at work at once
KeyExtras ==
    ExtrasOver(<< <<"key_path", {KeyJson, KeyJsonB, KeyP12}>>,
                  <<"keyfile_dict", {DictGood, DictGoodB}>> >>) \ {<<>>}

HdrAccept == <<"a", "c", "c", "e", "p", "t">>
HdrUserAgentTitle == <<"U", "s", "e", "r", "-", "A", "g", "e", "n", "t">>
Custom == <<"custom/1.0">>

HeaderNames == {UserAgentKey, HdrUserAgentTitle, HdrAccept}

\* the value the caller gives each header
HeaderValue(n) ==
    IF n = HdrAccept THEN <<"*/*">>
    ELSE IF n = UserAgentKey THEN Custom
    ELSE <<"Custom/2.0">>

\* the caller's headers argument: None, or a dict over some of the names
HeaderArgs ==
    {<<>>} \cup {<<[n \in D |-> HeaderValue(n)]>> : D \in SUBSET HeaderNames}

KwArgs == {<<>>, <<PyNone>>, <<Str(<<>>)>>, <<Str(<<"q">>)>>}

----------------------------------------------------------------------------
(* The state machine *)

NoOp ==
    [op |-> "none", status |-> "", msg |-> "", cred |-> NoCred, branch |-> "",
     parsed |-> FALSE, headers |-> <<>>, caller |-> <<>>, transport |-> <<>>,
     nargs |-> 0, kw |-> <<>>, invoked |-> 0, value |-> PyNone,
     tmp |-> <<>>, env_before |-> <<>>]

\* the last-operation record of a credential resolution
CredOp(op, r) ==
    [NoOp EXCEPT !.op = op, !.status = r.status, !.msg = r.msg, !.cred = r.cred,
                 !.branch = r.branch, !.parsed = r.parsed]

InitCommon ==
    /\ loaded = extras
    /\ files = [n \in TmpNames |-> <<>>]
    /\ pc = [h \in Hooks |-> "idle"]
    /\ conf_file = [h \in Hooks |-> <<>>]
    /\ env_entry = [h \in Hooks |-> <<>>]
    /\ env_set = [h \in Hooks |-> <<>>]
    /\ client = [h \in Hooks |-> <<>>]
    /\ last = [h \in Hooks |-> NoOp]
    /\ writer = <<>>

\* __init__: one hook at work, on any connection
Init ==
    /\ \E ex \in AllExtras : extras = [h \in Hooks |-> IF h = "h1" THEN ex ELSE <<>>]
    /\ \E d \in Delegates : delegate_to = [h \in Hooks |-> IF h = "h1" THEN d ELSE PyNone]
    /\ environ \in {<<>>, <<PriorEnv>>}
    /\ InitCommon

\* __init__: two hooks with key material
InitConc ==
    /\ extras \in [Hooks -> KeyExtras]
    /\ delegate_to = [h \in Hooks |-> PyNone]
    /\ environ \in {<<>>, <<PriorEnv>>}
    /\ InitCommon

Idle(h) == pc[h] = "idle"

DoGetCredentials(h) ==
    /\ Idle(h)
    /\ last' = [last EXCEPT ![h] =
                  CredOp("_get_credentials", GetCredentials(extras[h], delegate_to[h]))]
    /\ extras' = [extras EXCEPT ![h] = ExtrasAfterGetCredentials(extras[h])]
    /\ UNCHANGED <<loaded, delegate_to, environ, files, pc, conf_file, env_entry,
                   env_set, client, writer>>

\* _get_access_token: self._get_credentials().token
DoGetAccessToken(h) ==
    /\ Idle(h)
    /\ last' = [last EXCEPT ![h] =
                  CredOp("_get_access_token", GetCredentials(extras[h], delegate_to[h]))]
    /\ extras' = [extras EXCEPT ![h] = ExtrasAfterGetCredentials(extras[h])]
    /\ UNCHANGED <<loaded, delegate_to, environ, files, pc, conf_file, env_entry,
                   env_set, client, writer>>

\* _authorize: the client is built only when the credentials resolve
DoAuthorize(h) ==
    /\ Idle(h)
    /\ LET r == GetCredentials(extras[h], delegate_to[h]) IN
       /\ last' = [last EXCEPT ![h] = CredOp("_authorize", r)]
       /\ client' = [client EXCEPT ![h] =
                       IF r.status = "ok"
                       THEN <<[credentials |-> r.cred, user_agent |-> AirflowUserAgent]>>
                       ELSE @]
    /\ extras' = [extras EXCEPT ![h] = ExtrasAfterGetCredentials(extras[h])]
    /\ UNCHANGED <<loaded, delegate_to, environ, files, pc, conf_file, env_entry,
                   env_set, writer>>

\* a request through the client _authorize returned
DoRequest(h) ==
    /\ Idle(h)
    /\ client[h] # <<>>
    /\ \E hd \in HeaderArgs :
         LET r == AuthorizedRequest(hd, client[h][1].user_agent) IN
         last' = [last EXCEPT ![h] =
                    [NoOp EXCEPT !.op = "request", !.status = "ok", !.headers = hd,
                                 !.caller = r.caller, !.transport = r.transport]]
    /\ UNCHANGED <<extras, loaded, delegate_to, environ, files, pc, conf_file,
                   env_entry, env_set, client, writer>>

\* a request through the http object _set_user_agent returned
DoNewRequest(h) ==
    /\ Idle(h)
    /\ \E hd \in HeaderArgs :
         LET r == NewRequest(hd, AirflowUserAgent) IN
         last' = [last EXCEPT ![h] =
                    [NoOp EXCEPT !.op = "new_request", !.status = "ok", !.headers = hd,
                                 !.caller = r.caller, !.transport = r.transport]]
    /\ UNCHANGED <<extras, loaded, delegate_to, environ, files, pc, conf_file,
                   env_entry, env_set, client, writer>>

DoGetField(h) ==
    /\ Idle(h)
    /\ \E f \in {"key_path", "keyfile_dict", "scope", "project"} :
       \E default \in {PyNone, PyFalse} :
         last' = [last EXCEPT ![h] =
                    [NoOp EXCEPT !.op = "_get_field", !.status = "ok",
                                 !.value = GetField(extras[h], f, default)]]
    /\ UNCHANGED <<extras, loaded, delegate_to, environ, files, pc, conf_file,
                   env_entry, env_set, client, writer>>

DoProjectId(h) ==
    /\ Idle(h)
    /\ last' = [last EXCEPT ![h] =
                  [NoOp EXCEPT !.op = "project_id", !.status = "ok",
                               !.value = ProjectId(extras[h])]]
    /\ UNCHANGED <<extras, loaded, delegate_to, environ, files, pc, conf_file,
                   env_entry, env_set, client, writer>>

\* a call of an operation decorated with fallback_to_default_project_id
DoFallbackCall(h) ==
    /\ Idle(h)
    /\ \E nargs \in {0, 1} : \E kw \in KwArgs :
         LET r == InnerWrapper(extras[h], nargs, kw) IN
         last' = [last EXCEPT ![h] =
                    [NoOp EXCEPT !.op = "fallback", !.status = r.status, !.msg = r.msg,
                                 !.nargs = nargs, !.kw = kw, !.invoked = r.invoked,
                                 !.value = r.project_id]]
    /\ UNCHANGED <<extras, loaded, delegate_to, environ, files, pc, conf_file,
                   env_entry, env_set, client, writer>>

\* wrapper: the with statement creates the temporary file
WrapperEnter(h) ==
    /\ Idle(h)
    /\ \E n \in TmpNames :
         /\ files[n] = <<>>
         /\ files' = CreateTmp(files, n)
         /\ conf_file' = [conf_file EXCEPT ![h] = <<n>>]
    /\ env_entry' = [env_entry EXCEPT ![h] = environ]
    /\ pc' = [pc EXCEPT ![h] = "opened"]
    /\ last' = [last EXCEPT ![h] =
                  [NoOp EXCEPT !.op = "provide_gcp_credential_file",
                               !.status = "entered"]]
    /\ UNCHANGED <<extras, loaded, delegate_to, environ, env_set, client, writer>>

\* wrapper: the fields are read, the file written and the variable assigned
WrapperProvide(h) ==
    /\ pc[h] = "opened"
    /\ LET n == conf_file[h][1]
           p == Provide(extras[h], n)
       IN  /\ files' = IF p.data # <<>> THEN WriteFlush(files, n, p.data[1]) ELSE files
           /\ environ' = IF p.env # <<>> THEN EnvAssign(environ, p.env[1]) ELSE environ
           /\ env_set' = IF p.env # <<>> THEN [env_set EXCEPT ![h] = p.env] ELSE env_set
           /\ writer' = IF p.env # <<>> THEN <<h>> ELSE writer
           /\ pc' = [pc EXCEPT ![h] = IF p.status = "ok" THEN "calling" ELSE "closing"]
           /\ last' = [last EXCEPT ![h].status = p.status, ![h].msg = p.msg]
    /\ UNCHANGED <<extras, loaded, delegate_to, conf_file, env_entry, client>>

\* wrapper: func(self, *args, **kwargs) returns or raises
FuncFinish(h) ==
    /\ pc[h] = "calling"
    /\ \E raised \in BOOLEAN :
         last' = [last EXCEPT ![h].status = IF raised THEN "FuncError" ELSE "ok",
                              ![h].invoked = 1]
    /\ pc' = [pc EXCEPT ![h] = "closing"]
    /\ UNCHANGED <<extras, loaded, delegate_to, environ, files, conf_file, env_entry,
                   env_set, client, writer>>

\* wrapper: the with block is left, on return or on an exception
WrapperExit(h) ==
    /\ pc[h] = "closing"
    /\ files' = CloseTmp(files, conf_file[h][1])
    /\ pc' = [pc EXCEPT ![h] = "idle"]
    /\ last' = [last EXCEPT ![h].tmp = conf_file[h], ![h].env_before = <<env_entry[h]>>]
    /\ conf_file' = [conf_file EXCEPT ![h] = <<>>]
    /\ env_entry' = [env_entry EXCEPT ![h] = <<>>]
    /\ UNCHANGED <<extras, loaded, delegate_to, environ, env_set, client, writer>>

Wrapped(h) ==
    \/ WrapperEnter(h)
    \/ WrapperProvide(h)
    \/ FuncFinish(h)
    \/ WrapperExit(h)

\* one hook, one caller: the operations run one after another
Next ==
    \/ DoGetCredentials("h1")
    \/ DoGetAccessToken("h1")
    \/ DoAuthorize("h1")
    \/ DoRequest("h1")
    \/ DoNewRequest("h1")
    \/ DoGetField("h1")
    \/ DoProjectId("h1")
    \/ DoFallbackCall("h1")
    \/ Wrapped("h1")

Spec == Init /\ [][Next]_vars

\* two hooks in two threads of one process, each in a wrapped call
NextConc == \E h \in Hooks : Wrapped(h)

SpecConc == InitConc /\ [][NextConc]_vars

----------------------------------------------------------------------------
(* Properties.  A field is set when the mapping holds a non-empty text for  *)
(* it; these read the mapping directly, not through the hook's accessors.  *)

IsSet(ex, f) == LongF(f) \in DOMAIN ex /\ ex[LongF(f)] # <<>>

Field(ex, f) == ex[LongF(f)]

\* the last n characters of s (all of s when it is shorter)
Suffix(s, n) == IF Len(s) <= n THEN s ELSE SubSeq(s, Len(s) - n + 1, Len(s))

CredOps == {"_get_credentials", "_get_access_token", "_authorize"}

\* the hook h has just resolved credentials
Resolved(h) == pc[h] = "idle" /\ last[h].op \in CredOps

\* C1: credential resolution picks its source by priority: ambient discovery
\* when neither key_path nor keyfile_dict is set; the key-file branch when
\* key_path is set, whatever keyfile_dict holds, and keyfile_dict is then not
\* parsed; the inline-key branch only when key_path is not set and
\* keyfile_dict is.
C1_SourcePriority ==
    \A h \in Hooks : Resolved(h) =>
        LET kp == IsSet(extras[h], "key_path")
            kd == IsSet(extras[h], "keyfile_dict")
            r == last[h]
        IN  /\ (~kp /\ ~kd) =>
                 /\ r.branch = "default" /\ r.status = "ok"
                 /\ r.cred.kind = "default" /\ ~r.parsed
            /\ kp =>
                 /\ r.branch = "key_path" /\ ~r.parsed
                 /\ r.cred.kind \in {"file", "none"}
            /\ (~kp /\ kd) =>
                 /\ r.branch = "keyfile_dict" /\ r.parsed
                 /\ r.cred.kind \in {"info", "none"}

\* both fields set, and the key file was used
C1_Witness ==
    /\ Resolved("h1")
    /\ IsSet(extras["h1"], "key_path") /\ IsSet(extras["h1"], "keyfile_dict")
    /\ last["h1"].cred.kind = "file"

\* C2: with key_path set the outcome follows the path's suffix: .json builds
\* credentials from that file with the resolved scopes, .p12 fails as an
\* unsupported key format, anything else as an unrecognised extension, and a
\* failure returns no credentials.
C2_KeyPathOutcomes ==
    \A h \in Hooks : (Resolved(h) /\ IsSet(extras[h], "key_path")) =>
        LET path == Field(extras[h], "key_path")
            r == last[h]
        IN  IF Suffix(path, 5) = <<".", "j", "s", "o", "n">>
            THEN /\ r.status = "ok"
                 /\ r.cred.kind = "file" /\ r.cred.key = path
                 /\ r.cred.scopes = Scopes(extras[h])
            ELSE IF Suffix(path, 4) = <<".", "p", "1", "2">>
                 THEN r.status = "AirflowException" /\ r.msg = MsgP12 /\ r.cred = NoCred
                 ELSE r.status = "AirflowException" /\ r.msg = MsgExt /\ r.cred = NoCred

\* a .p12 path was rejected
C2_Witness ==
    /\ Resolved("h1")
    /\ IsSet(extras["h1"], "key_path")
    /\ Suffix(Field(extras["h1"], "key_path"), 4) = <<".", "p", "1", "2">>
    /\ last["h1"].msg = MsgP12

\* the key texts of the model that are not JSON
NotJson == {DictBad, DictSingle}

\* C3: with key_path not set and keyfile_dict set to text that is not valid
\* JSON, resolution fails with the invalid-key-JSON error and returns no
\* credentials, with or without a delegate.
C3_InvalidKeyJson ==
    \A h \in Hooks :
        ( /\ Resolved(h)
          /\ ~IsSet(extras[h], "key_path")
          /\ IsSet(extras[h], "keyfile_dict")
          /\ Field(extras[h], "keyfile_dict") \in NotJson ) =>
        /\ last[h].status = "AirflowException"
        /\ last[h].msg = MsgJson
        /\ last[h].cred = NoCred

\* malformed key JSON met on a hook that has a delegate
C3_Witness ==
    /\ Resolved("h1")
    /\ ~IsSet(extras["h1"], "key_path")
    /\ IsSet(extras["h1"], "keyfile_dict")
    /\ Field(extras["h1"], "keyfile_dict") = DictBad
    /\ delegate_to["h1"] = Str(<<"d">>)
    /\ last["h1"].msg = MsgJson

\* the caller's headers that are a User-Agent header, in any spelling
CallerUserAgents(hd) ==
    IF hd = <<>> THEN {} ELSE {n \in DOMAIN hd[1] : Lower(n) = UserAgentKey}

\* C4: a request through the authorized client carries one User-Agent value:
\* airflow-<version>, a space and the caller's value when the caller gave a
\* User-Agent header, airflow-<version> alone when the caller gave none.
C4_UserAgentPrepended ==
    \A h \in Hooks : (pc[h] = "idle" /\ last[h].op = "request") =>
        LET hd == last[h].headers
            sent == UserAgentValues(last[h].transport)
        IN  IF CallerUserAgents(hd) = {}
            THEN sent = {AirflowUserAgent}
            ELSE \E n \in CallerUserAgents(hd) :
                    sent = {AirflowUserAgent \o <<" ">> \o hd[1][n]}

\* what the resolver's projectId is, read from the mapping
StoredProject(ex) ==
    IF LongF("project") \in DOMAIN ex THEN Str(Field(ex, "project")) ELSE PyNone

IsEmpty(x) == x.t # "str" \/ x.v = <<>>

\* the outcome a fallback-decorated call must have when pid is the project
\* id that results
FallbackOutcome(r, pid) ==
    IF r.nargs > 0
    THEN r.status = "AirflowException" /\ r.msg = MsgPositional /\ r.invoked = 0
    ELSE IF IsEmpty(pid)
         THEN r.status = "AirflowException" /\ r.msg = MsgProject /\ r.invoked = 0
         ELSE r.status = "ok" /\ r.invoked = 1 /\ r.value = pid

InCall(h) == pc[h] = "calling"

\* the hook h has left provide_gcp_credential_file's wrapper
Exited(h) ==
    /\ pc[h] = "idle"
    /\ last[h].op = "provide_gcp_credential_file"

\* what the variable must hold for h's wrapped call: its key path, or its
\* temporary file holding the raw key text
OwnCredentialFile(h) ==
    IF IsSet(extras[h], "key_path")
    THEN environ = <<Field(extras[h], "key_path")>>
    ELSE /\ conf_file[h] # <<>>
         /\ environ = conf_file[h]
         /\ files[conf_file[h][1]] = <<Field(extras[h], "keyfile_dict")>>

HasKey(h) ==
    \/ /\ IsSet(extras[h], "key_path")
       /\ Suffix(Field(extras[h], "key_path"), 4) # <<".", "p", "1", "2">>
    \/ /\ ~IsSet(extras[h], "key_path")
       /\ IsSet(extras[h], "keyfile_dict")

C7_EnvironRestored ==
    \A h \in Hooks : Exited(h) =>
        /\ environ = last[h].env_before[1]
        /\ environ # last[h].tmp

\* C8: a request through the decorated client leaves the caller's header map
\* as it was; the user-agent is written to a copy, and every other header of
\* the caller reaches the transport with its key and value.
C8_CallerHeadersKept ==
    \A h \in Hooks : (pc[h] = "idle" /\ last[h].op = "new_request") =>
        LET r == last[h]
            given == IF r.headers = <<>> THEN <<>> ELSE r.headers[1]
        IN  /\ r.caller = r.headers
            /\ DOMAIN r.transport = DOMAIN given \cup {UserAgentKey}
            /\ \A n \in DOMAIN given \ {UserAgentKey} : r.transport[n] = given[n]

\* the caller gave a user-agent and another header
C8_Witness ==
    /\ pc["h1"] = "idle" /\ last["h1"].op = "new_request"
    /\ last["h1"].headers = <<[n \in {UserAgentKey, HdrAccept} |-> HeaderValue(n)]>>
    /\ last["h1"].transport[UserAgentKey] = AirflowUserAgent \o <<" ">> \o Custom

\* C9: the extras mapping is never written after construction, whatever
\* operations ran and however they ended; a credential resolution therefore
\* always has the outcome the mapping loaded at construction gives.
C9_ExtrasReadOnly ==
    /\ extras = loaded
    /\ \A h \in Hooks : Resolved(h) =>
          last[h] = CredOp(last[h].op, GetCredentials(loaded[h], delegate_to[h]))

\* the inline-key branch parsed and normalised a key
C9_Witness ==
    /\ Resolved("h1")
    /\ last["h1"].parsed
    /\ last["h1"].cred.kind = "info"
    /\ last["h1"].cred.key = <<"a", NL, "b">>

\* C10: the variable is written last-writer-wins with nothing serialising
\* the wrappers: it holds what the hook that assigned it last gave it, also
\* while another hook's wrapped call is still running.
C10_LastWriterWins ==
    writer # <<>> => environ = env_set[writer[1]]

\* h1's wrapped call runs while the variable holds h2's credential file
C10_Witness ==
    /\ InCall("h1") /\ InCall("h2")
    /\ HasKey("h1") /\ HasKey("h2")
    /\ writer = <<"h2">>
    /\ environ = env_set["h2"]
    /\ environ # env_set["h1"]
    /\ ~OwnCredentialFile("h1")

====
